---------------------------- MODULE Spec2Model ----------------------------
(***************************************************************************)
(* Model of the authentication service (src/services/authService.js) and   *)
(* of the connection module it runs on (src/db/connection.js).             *)
(*                                                                         *)
(* Spec      : the five service operations, each split at its awaits, run  *)
(*             by concurrent requests against the shared store.            *)
(* SpecConn  : executeQuery / executeTransaction / closePool, split at     *)
(*             their awaits, with faults of the driver as choices.         *)
(***************************************************************************)
EXTENDS Integers, FiniteSets

VARIABLES users, tokens, now, proc, loggedOut,
          pool, poolsCreated, checkedOut, cproc

vars == <<users, tokens, now, proc, loggedOut,
          pool, poolsCreated, checkedOut, cproc>>

authVars == <<users, tokens, now, proc, loggedOut>>
connVars == <<pool, poolsCreated, checkedOut, cproc>>

(***************************************************************************)
(* Bounds                                                                  *)
(***************************************************************************)
\* rows the RefreshTokens table may hold before login stops being called
MaxTokens == 2
\* pools getConnection may create
MaxPools == 2

(***************************************************************************)
(* Program constants                                                       *)
(***************************************************************************)
SALT_ROUNDS == 10
\* expiresAt.setDate(expiresAt.getDate() + 7)
SevenDays == 7
\* the refresh token's own expiry claim (utils/jwt, "e.g. 7 days")
RefreshTtl == 7

Procs == {"r1", "r2"}
\* the strings callers supply as username, email or login identifier
Names == {"n1", "n2"}
\* the passwords tried at login, and those users register with
Passwords == {"pw1", "pw2"}
RegPasswords == {"pw1"}
UserIds == 1..Cardinality(Names)
\* the instants the clock is observed at: the start, a day later, and the
\* instant at which a token issued at the start expires
TimePoints == {0, 1, SevenDays}

(***************************************************************************)
(* Collaborators: bcrypt and utils/jwt                                     *)
(***************************************************************************)
\* bcrypt.hash(password, SALT_ROUNDS): one-way, carries its cost
bcryptHash(password, rounds) == [plain |-> password, cost |-> rounds]

\* bcrypt.compare(password, hash): false on mismatch, never throws
bcryptCompare(password, hash) == hash.plain = password

NoToken == [sub |-> 0, iat |-> 0, sig |-> "absent"]
Garbage == [sub |-> 0, iat |-> 0, sig |-> "bad"]

\* sign({userId}, ttl): the claims and the issue time decide the string
generateRefreshToken(payload, clock) ==
    [sub |-> payload.userId, iat |-> clock, sig |-> "valid"]

\* sign({userId, username, email}, ttl)
generateAccessToken(payload) ==
    [userId |-> payload.userId, username |-> payload.username,
     email |-> payload.email]

\* verify(token): throws on a bad signature or a passed expiry claim
verifyRefreshToken(token, clock) ==
    /\ token.sig = "valid"
    /\ clock < token.iat + RefreshTtl

(***************************************************************************)
(* The store: HMS_USERS and HMS_REFRESH_TOKENS                             *)
(***************************************************************************)
NoUser == [id |-> 0, username |-> "", email |-> ""]
NoHash == [plain |-> "", cost |-> 0]
NoRet == [user |-> NoUser, accessToken |-> generateAccessToken(
              [userId |-> 0, username |-> "", email |-> ""]),
          refreshToken |-> NoToken]

Identity(row) == [id |-> row.id, username |-> row.username, email |-> row.email]

\* a Users table without its UNIQUE constraints
NoUserConstraint(rows, username, email) == FALSE

\* a Users table whose only UNIQUE key is the email
EmailUniqueOnly(rows, username, email) ==
    \E r \in rows : r.email = email

\* Users(username UNIQUE, email UNIQUE): the insert is refused on a collision
UserUniqueViolation(rows, username, email) ==
    \E r \in rows : r.username = username \/ r.email = email

\* RefreshTokens(token UNIQUE)
TokenUniqueViolation(rows, token) ==
    \E r \in rows : r.token = token

\* WHERE USERNAME = :username OR EMAIL = :email
SelectByUsernameOrEmail(username, email) ==
    {r \in users : r.username = username \/ r.email = email}

\* a re-fetch on the wrong column: WHERE EMAIL = :username
SelectByEmail(username) == {r \in users : r.email = username}

\* WHERE USERNAME = :username
SelectByUsername(username) == {r \in users : r.username = username}

\* a join without its ON RT.USER_ID = U.ID
SelectAnyUser(userId) == users

\* WHERE ID = :userId
SelectById(userId) == {r \in users : r.id = userId}

\* the lookup without its IS_REVOKED = 0 condition
SelectUnexpiredToken(token) ==
    {r \in tokens : r.token = token /\ r.expiresAt > now}

\* the lookup with EXPIRES_AT >= CURRENT_TIMESTAMP
SelectTokenExpiryInclusive(token) ==
    {r \in tokens : r.token = token /\ ~r.revoked /\ r.expiresAt >= now}

\* the lookup by the token string alone
SelectTokenInAnyState(token) == {r \in tokens : r.token = token}

\* JOIN ... WHERE RT.TOKEN = :token AND RT.IS_REVOKED = 0
\*            AND RT.EXPIRES_AT > CURRENT_TIMESTAMP
SelectActiveToken(token) ==
    {r \in tokens : r.token = token /\ ~r.revoked /\ r.expiresAt > now}

\* an UPDATE that flips the flag of every row of the token
RevokeRowsToggle(rows, token) ==
    {IF r.token = token THEN [r EXCEPT !.revoked = ~r.revoked] ELSE r
        : r \in rows}

\* an UPDATE that revokes every session of the token's owner
RevokeRowsOfOwner(rows, token) ==
    {IF \E o \in rows : o.token = token /\ o.userId = r.userId
     THEN [r EXCEPT !.revoked = TRUE] ELSE r
        : r \in rows}

\* UPDATE ... SET IS_REVOKED = 1 WHERE TOKEN = :token AND IS_REVOKED = 0
RevokeRows(rows, token) ==
    {IF r.token = token /\ ~r.revoked THEN [r EXCEPT !.revoked = TRUE] ELSE r
        : r \in rows}

\* the token strings a caller may present: none, an unsigned one, the
\* issued ones, and a signed one of this instant that may not be stored
TokenArgs ==
    {NoToken, Garbage} \cup {r.token : r \in tokens} \cup
    {generateRefreshToken([userId |-> 1], now)}

NullPool == [id |-> 0, closed |-> FALSE]

\* initializePool: pool = mysql.createPool(...)
CreatedPool(n) == [id |-> n + 1, closed |-> FALSE]

\* executeQuery as the service sees it: the pool is created on first use,
\* the connection is taken and given back within the statement
QueryConn ==
    /\ pool' = IF pool = NullPool THEN CreatedPool(poolsCreated) ELSE pool
    /\ poolsCreated' = IF pool = NullPool THEN poolsCreated + 1 ELSE poolsCreated
    /\ UNCHANGED <<checkedOut, cproc>>

(***************************************************************************)
(* Requests                                                                *)
(***************************************************************************)
Idle == [op |-> "none", pc |-> "idle", username |-> "", email |-> "",
         password |-> "", passwordHash |-> NoHash, insertId |-> 0,
         user |-> NoUser,
         refreshToken |-> NoToken, expiresAt |-> 0,
         queries |-> 0, affectedRows |-> 0,
         status |-> "none", err |-> "", ret |-> NoRet]

\* a request that returned: its arguments (args: a record of them), the
\* statements it issued and what the caller receives are kept
Returned(op, args, queries, ret) ==
    [Idle EXCEPT !.op = op, !.username = args.username, !.email = args.email,
                 !.refreshToken = args.refreshToken,
                 !.queries = queries, !.status = "ok", !.ret = ret]

\* a request that threw
Thrown(op, args, queries, err) ==
    [Idle EXCEPT !.op = op, !.username = args.username, !.email = args.email,
                 !.refreshToken = args.refreshToken,
                 !.queries = queries, !.status = "error", !.err = err]

NoArgs == [username |-> "", email |-> "", refreshToken |-> NoToken]

\* the arguments of a register call
RegisterArgs(username, email) ==
    [NoArgs EXCEPT !.username = username, !.email = email]

InFlight(p) == proc[p].pc # "idle"

\* request p moves to rec; what an earlier request returned or threw is
\* kept only until the next request returns or throws
Set(p, rec) ==
    proc' = [q \in Procs |->
               IF q = p THEN rec
               ELSE IF rec.pc = "idle" /\ ~InFlight(q) THEN Idle
               ELSE proc[q]]

(***************************************************************************)
(* registerUser                                                            *)
(* A request is split at its awaits on the store.  The synchronous head of *)
(* a call and the hashing, which touch nothing shared, are taken together  *)
(* with the statement that follows or precedes them.                       *)
(***************************************************************************)
\* the outcome of the existence check on existingUsers[0]
ExistingUserError(existing, username, email) ==
    IF existing.USERNAME = username THEN "Username already exists"
    ELSE IF existing.EMAIL = email THEN "Email already exists"
    ELSE ""

\* the check query, the test of its first row (a SELECT without ORDER BY:
\* any matching row may come first), and bcrypt.hash
RegisterCheck(p, username, email, password) ==
    LET existingUsers == SelectByUsernameOrEmail(username, email)
        goOn == [Idle EXCEPT !.op = "register", !.pc = "insert", !.queries = 1,
                             !.username = username, !.email = email,
                             !.passwordHash = bcryptHash(password, SALT_ROUNDS)]
    IN  /\ ~InFlight(p)
        /\ IF existingUsers = {}
           THEN Set(p, goOn)
           ELSE \E first \in existingUsers :
                  LET e == ExistingUserError(
                             [USERNAME |-> first.username, EMAIL |-> first.email],
                             username, email)
                  IN  IF e # "" THEN Set(p, Thrown("register",
                                     RegisterArgs(username, email), 1, e))
                                ELSE Set(p, goOn)
        /\ UNCHANGED <<users, tokens, now, loggedOut>>
        /\ QueryConn

\* a refused insert reported under the name of a business error
DuplicateEntryAsBusinessError == "Username already exists"

\* the driver's error for an insert a UNIQUE key refuses; no catch in
\* registerUser or loginUser, so it reaches the caller as it is
DuplicateEntryError == "ER_DUP_ENTRY"

\* ID is AUTO_INCREMENT: the next id of a table no row is deleted from
NextUserId(rows) == Cardinality(rows) + 1

\* the insert; its result (insertId) is awaited and dropped by the code and
\* kept here as history of the call
RegisterInsert(p) ==
    LET me == proc[p]
    IN  /\ me.op = "register" /\ me.pc = "insert"
        /\ IF UserUniqueViolation(users, me.username, me.email)
           THEN /\ Set(p, Thrown("register",
                                 RegisterArgs(me.username, me.email), 2,
                                 DuplicateEntryError))
                /\ UNCHANGED users
           ELSE /\ users' = users \cup
                      {[id |-> NextUserId(users), username |-> me.username,
                        email |-> me.email, passwordHash |-> me.passwordHash]}
                /\ Set(p, [me EXCEPT !.pc = "fetch", !.queries = 2,
                                     !.insertId = NextUserId(users),
                                     !.passwordHash = NoHash])
        /\ UNCHANGED <<tokens, now, loggedOut>>
        /\ QueryConn

RegisterFetch(p) ==
    LET me == proc[p]
        found == SelectByUsername(me.username)
    IN  /\ me.op = "register" /\ me.pc = "fetch"
        /\ IF found = {}
           THEN Set(p, Thrown("register", RegisterArgs(me.username, me.email),
                            3, "Failed to create user"))
           ELSE \E user \in found :
                  Set(p, [Returned("register",
                                   RegisterArgs(me.username, me.email), 3,
                                   [NoRet EXCEPT !.user = Identity(user)])
                          EXCEPT !.insertId = me.insertId])
        /\ UNCHANGED <<users, tokens, now, loggedOut>>
        /\ QueryConn

(***************************************************************************)
(* loginUser                                                               *)
(***************************************************************************)
LoginsInFlight == {q \in Procs : proc[q].op = "login" /\ InFlight(q)}

\* a lookup failure that names its cause
LoginNotFoundLeak == "User not found"

LoginNotFoundError == "Invalid credentials"

LoginMismatchError == "Invalid credentials"

\* an expiry of one day
ExpiresAtNextDay(clock) == clock + 1

\* new Date() plus seven days
ExpiresAt(clock) == clock + SevenDays

\* the lookup, bcrypt.compare on its first row, the tokens and expiresAt
LoginVerify(p, username, password) ==
    LET found == SelectByUsernameOrEmail(username, username)
    IN  /\ ~InFlight(p)
        /\ Cardinality(tokens) + Cardinality(LoginsInFlight) < MaxTokens
        /\ IF found = {}
           THEN Set(p, [Thrown("login", [NoArgs EXCEPT !.username = username],
                             1, LoginNotFoundError)
                        EXCEPT !.password = password])
           ELSE \E user \in found :
                  IF ~bcryptCompare(password, user.passwordHash)
                  THEN Set(p, [Thrown("login",
                                      [NoArgs EXCEPT !.username = username],
                                      1, LoginMismatchError)
                               EXCEPT !.user = Identity(user),
                                      !.password = password])
                  ELSE Set(p, [Idle EXCEPT
                         !.op = "login", !.pc = "insert", !.queries = 1,
                         !.username = username, !.password = password,
                         !.user = Identity(user),
                         !.refreshToken =
                             generateRefreshToken([userId |-> user.id], now),
                         !.expiresAt = ExpiresAt(now)])
        /\ UNCHANGED <<users, tokens, now, loggedOut>>
        /\ QueryConn

\* the row loginUser inserts
NewTokenRow(userId, token, expiresAt) ==
    [userId |-> userId, token |-> token, expiresAt |-> expiresAt,
     revoked |-> FALSE]

LoginInsert(p) ==
    LET me == proc[p]
    IN  /\ me.op = "login" /\ me.pc = "insert"
        /\ IF TokenUniqueViolation(tokens, me.refreshToken)
           THEN /\ Set(p, Thrown("login", NoArgs, 2, DuplicateEntryError))
                /\ UNCHANGED tokens
           ELSE /\ tokens' = tokens \cup
                      {NewTokenRow(me.user.id, me.refreshToken, me.expiresAt)}
                /\ Set(p, Returned("login", NoArgs, 2,
                       [user |-> me.user,
                        accessToken |-> generateAccessToken(
                            [userId |-> me.user.id, username |-> me.user.username,
                             email |-> me.user.email]),
                        refreshToken |-> me.refreshToken]))
        /\ UNCHANGED <<users, now, loggedOut>>
        /\ QueryConn

(***************************************************************************)
(* refreshAccessToken                                                      *)
(***************************************************************************)
\* a refresh that looks every present token up without verifying it
RefreshCallNoVerify(p, refreshToken) ==
    /\ ~InFlight(p)
    /\ IF refreshToken = NoToken
       THEN Set(p, Thrown("refresh", NoArgs, 0, "Refresh token is required"))
       ELSE Set(p, [Idle EXCEPT !.op = "refresh", !.pc = "query",
                                !.refreshToken = refreshToken])
    /\ UNCHANGED <<users, tokens, now, loggedOut>>
    /\ UNCHANGED connVars

\* the synchronous head: the missing-token test and verifyRefreshToken
RefreshCall(p, refreshToken) ==
    /\ ~InFlight(p)
    /\ IF refreshToken = NoToken
       THEN Set(p, Thrown("refresh", NoArgs, 0, "Refresh token is required"))
       ELSE IF ~verifyRefreshToken(refreshToken, now)
       THEN Set(p, Thrown("refresh", [NoArgs EXCEPT !.refreshToken = refreshToken],
                        0, "Invalid or expired refresh token"))
       ELSE Set(p, [Idle EXCEPT !.op = "refresh", !.pc = "query",
                                !.refreshToken = refreshToken])
    /\ UNCHANGED <<users, tokens, now, loggedOut>>
    /\ UNCHANGED connVars

\* a refresh that revokes the token it was given (rotation on use)
RefreshRotates(rows, token) == RevokeRows(rows, token)

\* the rows of HMS_REFRESH_TOKENS after refresh's statement: a SELECT
RefreshTokensAfter(rows, token) == rows

RefreshQuery(p) ==
    LET me == proc[p]
        found == SelectActiveToken(me.refreshToken)
    IN  /\ me.op = "refresh" /\ me.pc = "query"
        /\ IF found = {}
           THEN Set(p, Thrown("refresh",
                            [NoArgs EXCEPT !.refreshToken = me.refreshToken],
                            1, "Invalid or expired refresh token"))
           ELSE \E tokenData \in found : \E u \in SelectById(tokenData.userId) :
                  Set(p, Returned("refresh",
                            [NoArgs EXCEPT !.refreshToken = me.refreshToken], 1,
                            [NoRet EXCEPT
                               !.user = Identity(u),
                               !.accessToken = generateAccessToken(
                                   [userId |-> u.id, username |-> u.username,
                                    email |-> u.email])]))
        /\ tokens' = RefreshTokensAfter(tokens, me.refreshToken)
        /\ UNCHANGED <<users, now, loggedOut>>
        /\ QueryConn

(***************************************************************************)
(* logoutUser                                                              *)
(***************************************************************************)
\* logoutUser without its "if (!refreshToken) return"
LogoutNoGuard(p, refreshToken) ==
    /\ ~InFlight(p)
    /\ tokens' = RevokeRows(tokens, refreshToken)
    /\ Set(p, [Returned("logout", [NoArgs EXCEPT !.refreshToken = refreshToken],
                        1, NoRet)
               EXCEPT !.affectedRows =
                   Cardinality(tokens \ RevokeRows(tokens, refreshToken))])
    /\ loggedOut' = IF \E r \in tokens : r.token = refreshToken
                    THEN loggedOut \cup {refreshToken} ELSE loggedOut
    /\ QueryConn
    /\ UNCHANGED <<users, now>>

Logout(p, refreshToken) ==
    /\ ~InFlight(p)
    /\ IF refreshToken = NoToken
       THEN /\ Set(p, Returned("logout", NoArgs, 0, NoRet))
            /\ UNCHANGED <<tokens, loggedOut>>
            /\ UNCHANGED connVars
       ELSE /\ tokens' = RevokeRows(tokens, refreshToken)
            \* the statement's result (its affectedRows) is awaited and dropped
            /\ Set(p, [Returned("logout",
                                [NoArgs EXCEPT !.refreshToken = refreshToken],
                                1, NoRet)
                       EXCEPT !.affectedRows =
                           Cardinality(tokens \ RevokeRows(tokens, refreshToken))])
            \* history: the issued token strings whose logout has completed
            /\ loggedOut' = IF \E r \in tokens : r.token = refreshToken
                            THEN loggedOut \cup {refreshToken} ELSE loggedOut
            /\ QueryConn
    /\ UNCHANGED <<users, now>>

(***************************************************************************)
(* getUserById                                                             *)
(***************************************************************************)
GetUserById(p, userId) ==
    LET found == SelectById(userId)
    IN  /\ ~InFlight(p)
        /\ IF found = {}
           THEN Set(p, Thrown("getUserById", NoArgs, 1, "User not found"))
           ELSE \E user \in found :
                  Set(p, Returned("getUserById", NoArgs, 1,
                                  [NoRet EXCEPT !.user = Identity(user)]))
        /\ UNCHANGED <<users, tokens, now, loggedOut>>
        /\ QueryConn

(***************************************************************************)
(* The clock (CURRENT_TIMESTAMP, new Date())                               *)
(***************************************************************************)
Tick ==
    /\ \E t \in TimePoints : t > now /\ now' = t
    /\ UNCHANGED <<users, tokens, proc, loggedOut>>
    /\ UNCHANGED connVars

(***************************************************************************)
(* connection.js: getConnection, executeQuery, executeTransaction,         *)
(* closePool, each split at its awaits.  A statement of the driver that    *)
(* can reject is a choice between its success and its failure.             *)
(***************************************************************************)
CIdle == [op |-> "none", pc |-> "idle", connection |-> FALSE, poolId |-> 0,
          acquired |-> 0, released |-> 0, txn |-> "none", rolledBack |-> FALSE,
          error |-> "", thrown |-> ""]

CBusy(p) == cproc[p].pc # "idle"

CSet(p, rec) == cproc' = [cproc EXCEPT ![p] = rec]

\* a release at the end of the try block instead of in finally
FinallyOnSuccess(rec) ==
    [rec EXCEPT !.pc = "idle",
                !.released = IF rec.connection /\ rec.thrown = ""
                             THEN rec.released + 1 ELSE rec.released,
                !.connection = FALSE]

\* finally { if (connection) connection.release() }, then the function ends
Finally(rec) ==
    [rec EXCEPT !.pc = "idle",
                !.released = IF rec.connection THEN rec.released + 1
                             ELSE rec.released,
                !.connection = FALSE]

\* the function ends through its finally block
Finish(p, rec) ==
    /\ CSet(p, Finally(rec))
    /\ checkedOut' = checkedOut - (Finally(rec).released - rec.released)

\* a getConnection that creates a pool on every call
NeedsInitAlways == TRUE

\* if (!pool)
NeedsInit == pool = NullPool

\* getConnection up to its first await: if (!pool) await initializePool(),
\* else return pool.getConnection()
GetConnectionHead(p, op) ==
    /\ ~CBusy(p)
    /\ IF NeedsInit
       THEN /\ poolsCreated < MaxPools
            /\ \/ /\ pool' = CreatedPool(poolsCreated)
                  /\ poolsCreated' = poolsCreated + 1
                  /\ CSet(p, [CIdle EXCEPT !.op = op, !.pc = "afterInit"])
               \/ \* createPool throws: initializePool rethrows
                  /\ CSet(p, [CIdle EXCEPT !.op = op, !.pc = "failed",
                                           !.error = "acquire"])
                  /\ UNCHANGED <<pool, poolsCreated>>
       ELSE /\ CSet(p, [CIdle EXCEPT !.op = op, !.pc = "acquiring",
                                     !.poolId = pool.id])
            /\ UNCHANGED <<pool, poolsCreated>>
    /\ UNCHANGED checkedOut
    /\ UNCHANGED authVars

ExecuteQueryCall(p) == GetConnectionHead(p, "executeQuery")

ExecuteTransactionCall(p) == GetConnectionHead(p, "executeTransaction")

\* getConnection after await initializePool(): return pool.getConnection()
\* on whatever the handle holds by then
AfterInit(p) ==
    LET me == cproc[p]
    IN  /\ me.pc = "afterInit"
        /\ IF pool = NullPool
           THEN CSet(p, [me EXCEPT !.pc = "failed", !.error = "acquire"])
           ELSE CSet(p, [me EXCEPT !.pc = "acquiring", !.poolId = pool.id])
        /\ UNCHANGED <<pool, poolsCreated, checkedOut>>
        /\ UNCHANGED authVars

\* pool.getConnection() settles: a connection, or a rejection (always one
\* when the pool has been ended)
Acquire(p) ==
    LET me == cproc[p]
    IN  /\ me.pc = "acquiring"
        /\ \/ /\ ~(pool.id = me.poolId /\ pool.closed)
              /\ CSet(p, [me EXCEPT
                     !.pc = IF me.op = "executeQuery" THEN "execute" ELSE "begin",
                     !.connection = TRUE, !.acquired = me.acquired + 1])
              /\ checkedOut' = checkedOut + 1
           \/ /\ CSet(p, [me EXCEPT !.pc = "failed", !.error = "acquire"])
              /\ UNCHANGED checkedOut
        /\ UNCHANGED <<pool, poolsCreated>>
        /\ UNCHANGED authVars

\* the rejection of getConnection reaches the caller's catch and finally
AcquireFailed(p) ==
    LET me == cproc[p]
    IN  /\ me.pc = "failed"
        /\ Finish(p, [me EXCEPT !.thrown = me.error])
        /\ UNCHANGED <<pool, poolsCreated>>
        /\ UNCHANGED authVars

\* executeQuery: connection.execute settles; catch rethrows; finally
Execute(p) ==
    LET me == cproc[p]
    IN  /\ me.op = "executeQuery" /\ me.pc = "execute"
        /\ \/ Finish(p, me)
           \/ Finish(p, [me EXCEPT !.error = "execute", !.thrown = "execute"])
        /\ UNCHANGED <<pool, poolsCreated>>
        /\ UNCHANGED authVars

\* executeTransaction: await connection.beginTransaction()
Begin(p) ==
    LET me == cproc[p]
    IN  /\ me.op = "executeTransaction" /\ me.pc = "begin"
        /\ \/ CSet(p, [me EXCEPT !.pc = "body", !.txn = "open"])
           \/ CSet(p, [me EXCEPT !.pc = "rollback", !.error = "begin"])
        /\ UNCHANGED <<pool, poolsCreated, checkedOut>>
        /\ UNCHANGED authVars

\* await callback(connection)
Body(p) ==
    LET me == cproc[p]
    IN  /\ me.op = "executeTransaction" /\ me.pc = "body"
        /\ \/ CSet(p, [me EXCEPT !.pc = "commit"])
           \/ CSet(p, [me EXCEPT !.pc = "rollback", !.error = "body"])
        /\ UNCHANGED <<pool, poolsCreated, checkedOut>>
        /\ UNCHANGED authVars

\* await connection.commit(): on success the function ends through finally
Commit(p) ==
    LET me == cproc[p]
    IN  /\ me.op = "executeTransaction" /\ me.pc = "commit"
        /\ \/ Finish(p, [me EXCEPT !.txn = "committed"])
           \/ /\ CSet(p, [me EXCEPT !.pc = "rollback", !.error = "commit"])
              /\ UNCHANGED checkedOut
        /\ UNCHANGED <<pool, poolsCreated>>
        /\ UNCHANGED authVars

\* catch: what the caller receives once connection.rollback() has settled
\* (ok: it resolved): throw error, or the rejection of rollback itself
AfterRollback(rec, ok) ==
    IF ok
    THEN [rec EXCEPT !.rolledBack = TRUE, !.thrown = rec.error,
                     !.txn = IF rec.txn = "open" THEN "rolledback" ELSE rec.txn]
    ELSE [rec EXCEPT !.thrown = "rollback"]

\* catch { await connection.rollback(); throw error } finally { release }
Rollback(p) ==
    LET me == cproc[p]
    IN  /\ me.op = "executeTransaction" /\ me.pc = "rollback"
        /\ \E ok \in BOOLEAN : Finish(p, AfterRollback(me, ok))
        /\ UNCHANGED <<pool, poolsCreated>>
        /\ UNCHANGED authVars

\* closePool up to its await: if (pool) await pool.end()
ClosePoolCall(p) ==
    /\ ~CBusy(p)
    /\ IF pool = NullPool
       THEN /\ CSet(p, [CIdle EXCEPT !.op = "closePool"])
            /\ UNCHANGED pool
       ELSE /\ pool' = [pool EXCEPT !.closed = TRUE]
            /\ CSet(p, [CIdle EXCEPT !.op = "closePool", !.pc = "ending"])
    /\ UNCHANGED <<poolsCreated, checkedOut>>
    /\ UNCHANGED authVars

\* pool.end() has settled: pool = null, or its rejection leaves the handle
ClosePoolEnd(p) ==
    LET me == cproc[p]
    IN  /\ me.op = "closePool" /\ me.pc = "ending"
        /\ \/ /\ pool' = NullPool
              /\ CSet(p, [me EXCEPT !.pc = "idle"])
           \/ /\ CSet(p, [me EXCEPT !.pc = "idle", !.error = "end",
                                    !.thrown = "end"])
              /\ UNCHANGED pool
        /\ UNCHANGED <<poolsCreated, checkedOut>>
        /\ UNCHANGED authVars

Init ==
    /\ users = {}
    /\ tokens = {}
    /\ now = 0
    /\ proc = [p \in Procs |-> Idle]
    /\ loggedOut = {}
    /\ pool = NullPool
    /\ poolsCreated = 0
    /\ checkedOut = 0
    /\ cproc = [p \in Procs |-> CIdle]

Next ==
    \/ \E p \in Procs, u \in Names, e \in Names, pw \in RegPasswords :
           RegisterCheck(p, u, e, pw)
    \/ \E p \in Procs : RegisterInsert(p)
    \/ \E p \in Procs : RegisterFetch(p)
    \/ \E p \in Procs, u \in Names, pw \in Passwords : LoginVerify(p, u, pw)
    \/ \E p \in Procs : LoginInsert(p)
    \/ \E p \in Procs : \E t \in TokenArgs : RefreshCall(p, t)
    \/ \E p \in Procs : RefreshQuery(p)
    \/ \E p \in Procs : \E t \in TokenArgs : Logout(p, t)
    \/ \E p \in Procs, id \in UserIds \cup {Cardinality(Names) + 1} :
           GetUserById(p, id)
    \/ Tick

Spec == Init /\ [][Next]_vars

NextConn ==
    \/ \E p \in Procs : ExecuteQueryCall(p)
    \/ \E p \in Procs : ExecuteTransactionCall(p)
    \/ \E p \in Procs : AfterInit(p)
    \/ \E p \in Procs : Acquire(p)
    \/ \E p \in Procs : AcquireFailed(p)
    \/ \E p \in Procs : Execute(p)
    \/ \E p \in Procs : Begin(p)
    \/ \E p \in Procs : Body(p)
    \/ \E p \in Procs : Commit(p)
    \/ \E p \in Procs : Rollback(p)
    \/ \E p \in Procs : ClosePoolCall(p)
    \/ \E p \in Procs : ClosePoolEnd(p)

SpecConn == Init /\ [][NextConn]_vars

(***************************************************************************)
(* Properties                                                              *)
(***************************************************************************)
InvalidToken == "Invalid or expired refresh token"

\* what refreshAccessToken accepts
Usable(token) ==
    /\ verifyRefreshToken(token, now)
    /\ SelectActiveToken(token) # {}

\* this step ends a refresh of request p (in its head or after its query)
RefreshEnds(p) ==
    /\ proc'[p] # proc[p]
    /\ proc'[p].op = "refresh" /\ proc'[p].pc = "idle"

\* this step is request p's existence check of a register call
RegisterChecks(p) ==
    /\ ~InFlight(p)
    /\ proc'[p] # proc[p]
    /\ proc'[p].op = "register"

\* this step is request p's credential check of a login call
LoginVerifies(p) ==
    /\ ~InFlight(p)
    /\ proc'[p] # proc[p]
    /\ proc'[p].op = "login"

\* this step is a logout call of request p
LogsOut(p) ==
    /\ ~InFlight(p)
    /\ proc'[p] # proc[p]
    /\ proc'[p].op = "logout"

\* C1: once logout(t) has completed for an issued token t, every refresh(t)
\* whose store lookup runs afterwards fails with "Invalid or expired refresh
\* token", whatever ran in between.
C1_LogoutRevocation ==
    [][\A p \in Procs :
         (RefreshEnds(p) /\ proc'[p].refreshToken \in loggedOut)
            => (proc'[p].status = "error" /\ proc'[p].err = InvalidToken)]_vars

C1_Witness ==
    \E p \in Procs :
        /\ proc[p].op = "refresh" /\ proc[p].pc = "idle"
        /\ proc[p].queries = 1 /\ proc[p].err = InvalidToken
        /\ proc[p].refreshToken \in loggedOut
        /\ \E r \in tokens : r.token = proc[p].refreshToken /\ r.expiresAt > now

\* C2: a refresh of an issued token that has not been logged out succeeds
\* whenever its store lookup runs before the token's expiry (at issuance and
\* on every repeat), and every refresh that ends once the expiry has passed
\* fails with "Invalid or expired refresh token".
C2_RefreshValidityWindow ==
    [][\A p \in Procs : RefreshEnds(p) =>
         \A r \in tokens : r.token = proc'[p].refreshToken =>
            /\ (r.token \notin loggedOut /\ now < r.expiresAt)
                  => proc'[p].status = "ok"
            /\ now >= r.expiresAt
                  => (proc'[p].status = "error" /\ proc'[p].err = InvalidToken)]_vars

C2_Witness ==
    \E p \in Procs : \E r \in tokens :
        /\ proc[p].op = "refresh" /\ proc[p].pc = "idle"
        /\ proc[p].refreshToken = r.token
        /\ r.token \notin loggedOut
        /\ now >= r.expiresAt
        /\ proc[p].err = InvalidToken

\* C3: no step deletes a RefreshToken row, clears its revoked flag or changes
\* its expiry, and an issued token string that refresh would reject never
\* becomes one that refresh accepts.
C3_TerminalStates ==
    [][/\ \A r \in tokens : \E r2 \in tokens' :
             /\ r2.token = r.token /\ r2.userId = r.userId
             /\ r2.expiresAt = r.expiresAt
             /\ r.revoked => r2.revoked
       /\ \A r \in tokens : ~Usable(r.token) => ~Usable(r.token)']_vars

C3_Witness ==
    \E r \in tokens : \E r2 \in tokens : \E p \in Procs :
        /\ r.revoked /\ ~r2.revoked /\ r2.userId = r.userId
        /\ r2.expiresAt > r.expiresAt
        /\ proc[p].op = "refresh" /\ proc[p].pc = "idle"
        /\ proc[p].refreshToken = r.token /\ proc[p].err = InvalidToken

\* C4: with no other request in flight, a register whose username is that of
\* an existing row fails with "Username already exists" whatever its email,
\* and one whose username is new but whose email exists fails with "Email
\* already exists".
C4_SequentialUniqueness ==
    [][\A p \in Procs :
         (RegisterChecks(p) /\ \A q \in Procs : ~InFlight(q)) =>
            /\ \A r \in users :
                 (proc'[p].pc = "idle" /\ r.username = proc'[p].username)
                    => proc'[p].err = "Username already exists"
            /\ proc'[p].pc = "insert"
                  => \A r \in users : /\ r.username # proc'[p].username
                                      /\ r.email # proc'[p].email
            /\ (proc'[p].pc = "idle"
                  /\ (\A r \in users : r.username # proc'[p].username))
                  => proc'[p].err = "Email already exists"]_vars

\* C5: no two User rows share a username, and no two share an email.
C5_UniqueUsers ==
    \A r1 \in users : \A r2 \in users :
        (r1.username = r2.username \/ r1.email = r2.email) => r1 = r2

C5_Witness ==
    /\ Cardinality(users) = 2
    /\ \E p \in Procs : proc[p].op = "register" /\ proc[p].err = "ER_DUP_ENTRY"

\* C6: a login that fails at its lookup (no such user) and one that fails at
\* the password comparison throw the same error, "Invalid credentials".
C6_LoginEnumeration ==
    [][\A p \in Procs :
         (LoginVerifies(p) /\ proc'[p].pc = "idle")
            => /\ proc'[p].status = "error"
               /\ proc'[p].err = "Invalid credentials"
               /\ proc'[p].ret = NoRet
               /\ proc'[p].queries = 1]_vars

\* a login that found its user and failed on the password
C6_Witness ==
    \E p \in Procs :
        /\ proc[p].op = "login" /\ proc[p].err = "Invalid credentials"
        /\ proc[p].user # NoUser
        /\ proc[p].user.username = proc[p].username

\* C7: logout never throws; without a token it issues no statement and
\* changes nothing; on a token with no unrevoked row (never issued, or
\* already revoked) it leaves every row as it is; and a second logout of the
\* same token right after the first would change nothing.
C7_LogoutIdempotent ==
    [][\A p \in Procs : LogsOut(p) =>
         /\ proc'[p].status = "ok" /\ proc'[p].err = ""
         /\ proc'[p].queries = 0 => (tokens' = tokens /\ pool' = pool)
         /\ (proc'[p].queries = 0) <=> (proc'[p].refreshToken = NoToken)
         /\ (\A r \in tokens : r.token = proc'[p].refreshToken => r.revoked)
               => tokens' = tokens
         /\ RevokeRows(tokens', proc'[p].refreshToken) = tokens']_vars

C7_Witness ==
    \E p \in Procs : \E r \in tokens :
        /\ proc[p].op = "logout" /\ proc[p].status = "ok"
        /\ proc[p].refreshToken = r.token
        /\ proc[p].affectedRows = 0
        /\ r.revoked

\* C8: a refresh, failed or not, leaves both tables as they are, and after a
\* successful one the token's row is the same unrevoked, unexpired row.
C8_RefreshDoesNotRotate ==
    [][\A p \in Procs :
         (proc'[p] # proc[p] /\ proc'[p].op = "refresh") =>
            /\ tokens' = tokens
            /\ users' = users
            /\ proc'[p].status = "ok" =>
                  \E r \in tokens :
                     /\ r.token = proc'[p].refreshToken
                     /\ r \in tokens'
                     /\ Usable(r.token)']_vars

C8_Witness ==
    \E p \in Procs : \E r \in tokens :
        /\ proc[p].op = "refresh" /\ proc[p].status = "ok"
        /\ proc[p].refreshToken = r.token
        /\ ~r.revoked /\ now > 0

\* C9: every connection executeQuery or executeTransaction takes is released
\* exactly once on every way out, none is released when taking it failed, and
\* no connection is checked out while no call is in flight.
C9_NoConnectionLeak ==
    /\ \A p \in Procs :
         /\ cproc[p].released <= cproc[p].acquired
         /\ cproc[p].acquired <= 1
         /\ cproc[p].connection <=> (cproc[p].acquired = 1 /\ cproc[p].released = 0)
         /\ ~CBusy(p) => cproc[p].released = cproc[p].acquired
         /\ cproc[p].error = "acquire" => cproc[p].acquired = 0
    /\ checkedOut = Cardinality({p \in Procs : cproc[p].connection})
    /\ (\A p \in Procs : ~CBusy(p)) => checkedOut = 0

C9_Witness ==
    \E p \in Procs : \E q \in Procs :
        /\ cproc[p].op = "executeTransaction" /\ ~CBusy(p)
        /\ cproc[p].thrown = "rollback" /\ cproc[p].released = 1
        /\ cproc[q].op = "executeQuery" /\ ~CBusy(q)
        /\ cproc[q].thrown = "execute" /\ cproc[q].released = 1
        /\ checkedOut = 0

\* C10: a transaction whose body completes is committed and not rolled back;
\* one whose beginTransaction, body or commit fails is rolled back, is not
\* committed, and throws that failure; the connection is released either way.
C10_TransactionContract ==
    \A p \in Procs :
        (cproc[p].op = "executeTransaction" /\ ~CBusy(p)) =>
            /\ cproc[p].error = ""
                  => (cproc[p].txn = "committed" /\ ~cproc[p].rolledBack
                      /\ cproc[p].thrown = "")
            /\ cproc[p].error \in {"begin", "body", "commit"}
                  => (cproc[p].rolledBack /\ cproc[p].txn # "committed"
                      /\ cproc[p].thrown = cproc[p].error)
            /\ cproc[p].released = cproc[p].acquired

\* this step is the store lookup of request p's refresh: the token it holds
\* has passed the signature check
RefreshLooksUp(p) ==
    /\ proc[p].op = "refresh" /\ proc[p].pc = "query"
    /\ proc'[p] # proc[p]

\* C11: for a token that passed the signature check, the refresh succeeds if
\* and only if, at its lookup, the store holds a row of that token that is
\* not revoked and whose expiry is later than now; a token with no row, a
\* revoked one and an expired one are all rejected with "Invalid or expired
\* refresh token".
C11_UsableIff ==
    [][\A p \in Procs : RefreshLooksUp(p) =>
         LET t == proc[p].refreshToken
             held == \E r \in tokens :
                        r.token = t /\ r.revoked = FALSE /\ now < r.expiresAt
         IN  /\ proc'[p].pc = "idle" /\ proc'[p].queries = 1
             /\ proc'[p].status = "ok" <=> held
             /\ ~held => (proc'[p].status = "error"
                          /\ proc'[p].err = InvalidToken
                          /\ proc'[p].ret = NoRet)]_vars

\* a signed token the store holds no row of, rejected at the lookup
C11_Witness ==
    \E p \in Procs :
        /\ proc[p].op = "refresh" /\ proc[p].pc = "idle"
        /\ proc[p].queries = 1 /\ proc[p].err = InvalidToken
        /\ proc[p].refreshToken.sig = "valid"
        /\ \A r \in tokens : r.token # proc[p].refreshToken
        /\ tokens # {}

\* this step is a step of a register or login call of request p
RegisterOrLoginStep(p) ==
    /\ proc'[p] # proc[p]
    /\ proc'[p].op \in {"register", "login"}

\* C12: of the steps of a register call only its insert changes the store,
\* adding one User row of the call's username and email, and a register that
\* returns has made that step once; a register that fails with "Username
\* already exists" or "Email already exists" adds none.  Of the steps of a
\* login only its insert changes the store, adding one RefreshToken row: owner
\* the returned user, token the returned refreshToken, not revoked, expiry
\* seven days after the instant the login computed it; a login that fails
\* with "Invalid credentials" adds none.  No existing row is changed.
C12_SideEffects ==
    [][\A p \in Procs : RegisterOrLoginStep(p) =>
         LET me == proc[p]
             after == proc'[p]
         IN  /\ users \subseteq users' /\ tokens \subseteq tokens'
             /\ after.op = "register" =>
                  /\ tokens' = tokens
                  /\ IF me.pc = "insert" /\ after.pc = "fetch"
                     THEN \E r \in users' \ users :
                            /\ users' = users \cup {r}
                            /\ r.username = me.username /\ r.email = me.email
                            /\ r.id = after.insertId
                     ELSE users' = users
                  /\ after.status = "ok" => (me.pc = "fetch" /\ me.insertId # 0)
                  /\ after.err \in {"Username already exists",
                                    "Email already exists"}
                        => (~InFlight(p) /\ after.insertId = 0)
             /\ after.op = "login" =>
                  /\ users' = users
                  /\ after.pc = "insert" =>
                        (tokens' = tokens /\ after.expiresAt = now + SevenDays)
                  /\ after.err = "Invalid credentials" =>
                        (tokens' = tokens /\ ~InFlight(p))
                  /\ after.status = "error" => tokens' = tokens
                  /\ after.status = "ok" =>
                        \E r \in tokens' \ tokens :
                          /\ tokens' = tokens \cup {r}
                          /\ r.userId = after.ret.user.id
                          /\ r.token = after.ret.refreshToken
                          /\ r.revoked = FALSE
                          /\ r.expiresAt = me.expiresAt]_vars

\* a second session was opened a day after the first
C12_Witness ==
    \E p \in Procs : \E r \in tokens :
        /\ proc[p].op = "login" /\ proc[p].status = "ok"
        /\ r.token = proc[p].ret.refreshToken
        /\ r.userId = proc[p].ret.user.id
        /\ r.expiresAt = 1 + SevenDays
        /\ Cardinality(tokens) = 2 /\ Cardinality(users) = 2

\* C13: every login that returns has added a row of its own, distinct from
\* every other row, that is not revoked and that refresh accepts until its
\* expiry, while the rows of earlier logins stay as they are; and a logout
\* changes no row of another token, so a session that refresh accepted
\* before the logout of another session is accepted after it.
C13_IndependentSessions ==
    [][\A p \in Procs :
         /\ (proc'[p] # proc[p] /\ proc'[p].op = "login"
               /\ proc'[p].status = "ok") =>
              \E r \in tokens' \ tokens :
                 /\ r.token = proc'[p].ret.refreshToken
                 /\ \A o \in tokens : o.token # r.token /\ o \in tokens'
                 /\ r.revoked = FALSE
                 /\ now < r.expiresAt => Usable(r.token)'
         /\ LogsOut(p) =>
              \A o \in tokens : o.token # proc'[p].refreshToken =>
                 /\ o \in tokens'
                 /\ Usable(o.token) => Usable(o.token)']_vars

\* two sessions of one user: the first logged out, the second still accepted
C13_Witness ==
    \E p \in Procs : \E r1 \in tokens : \E r2 \in tokens :
        /\ proc[p].op = "logout" /\ proc[p].affectedRows = 1
        /\ proc[p].refreshToken = r1.token
        /\ r1.revoked
        /\ r2.userId = r1.userId /\ r2.token # r1.token
        /\ Usable(r2.token)

\* this step is the insert of request p's register call: its existence check
\* found no row of its username or email
RegisterInserts(p) ==
    /\ proc[p].op = "register" /\ proc[p].pc = "insert"
    /\ proc'[p] # proc[p]

\* C14: the existence check is not repeated at the insert.  A register that
\* passed its check while another register of the same username or email had
\* not inserted yet reaches its insert with such a row present; no two rows
\* of one username or email result: the store refuses the insert, and the
\* caller receives the store's error, not "Username already exists" or
\* "Email already exists".
C14_RegistrationRace ==
    [][\A p \in Procs : RegisterInserts(p) =>
         IF \E r \in users : r.username = proc[p].username
                                \/ r.email = proc[p].email
         THEN /\ proc'[p].status = "error"
              /\ proc'[p].err = "ER_DUP_ENTRY"
              /\ proc'[p].err \notin {"Username already exists",
                                      "Email already exists"}
              /\ users' = users
         ELSE /\ proc'[p].pc = "fetch"
              /\ Cardinality(users') = Cardinality(users) + 1]_vars

\* two registers of one username passed the check; one inserted, the other
\* received the store's error
C14_Witness ==
    \E p \in Procs : \E r \in users :
        /\ proc[p].op = "register" /\ proc[p].queries = 2
        /\ proc[p].err = "ER_DUP_ENTRY"
        /\ r.username = proc[p].username
        /\ Cardinality(users) = 1

\* this step is the call of request p's refresh, up to its first await
RefreshCalled(p) ==
    /\ ~InFlight(p)
    /\ proc'[p] # proc[p]
    /\ proc'[p].op = "refresh"

\* C15: a refresh without a token fails with "Refresh token is required"; one
\* whose token fails verification fails with "Invalid or expired refresh
\* token"; both before any statement is issued (no query counted, the pool
\* untouched).  The lookup is made only for a token that passed
\* verification, and such a token with no unrevoked row is still rejected.
C15_RefreshCheckOrder ==
    [][\A p \in Procs :
         /\ RefreshCalled(p) =>
              LET t == proc'[p].refreshToken
              IN  /\ proc'[p].queries = 0
                  /\ UNCHANGED connVars
                  /\ proc'[p].err = "Refresh token is required"
                        <=> (t = NoToken /\ proc'[p].pc = "idle")
                  /\ (t # NoToken /\ ~verifyRefreshToken(t, now))
                        => (proc'[p].pc = "idle" /\ proc'[p].err = InvalidToken)
                  /\ proc'[p].pc = "query"
                        => (t # NoToken /\ verifyRefreshToken(t, now))
                  /\ proc'[p].pc = "idle" => proc'[p].status = "error"
         /\ RefreshLooksUp(p) =>
              /\ proc[p].refreshToken.sig = "valid"
              /\ proc'[p].queries = 1
              /\ (\A r \in tokens : r.token = proc[p].refreshToken => r.revoked)
                    => proc'[p].err = InvalidToken]_vars

\* an issued token, never revoked, rejected by the verification once its
\* own expiry has passed, without a lookup
C15_Witness ==
    \E p \in Procs : \E r \in tokens :
        /\ proc[p].op = "refresh" /\ proc[p].pc = "idle"
        /\ proc[p].queries = 0 /\ proc[p].err = InvalidToken
        /\ proc[p].refreshToken = r.token
        /\ ~r.revoked /\ ~verifyRefreshToken(r.token, now)

\* C16: no register call ends with "Failed to create user": while a register
\* is between its insert and its re-fetch the row of its username is in the
\* table, since no operation deletes a User row.
C16_CreationFailedUnreachable ==
    \A p \in Procs :
        /\ proc[p].err # "Failed to create user"
        /\ (proc[p].op = "register" /\ proc[p].pc = "fetch")
              => \E r \in users : r.username = proc[p].username
                                    /\ r.id = proc[p].insertId

\* a register that returned after other calls had written to both tables
C16_Witness ==
    \E p \in Procs :
        /\ proc[p].op = "register" /\ proc[p].status = "ok"
        /\ proc[p].queries = 3
        /\ proc[p].ret.user.id = 2
        /\ tokens # {}

\* C17: a refresh that returns gives the id, username and email of the User
\* row that the token's RefreshToken row names as owner, which is the user
\* the token was signed for at login, and the access token it returns is
\* signed over exactly these three values.
C17_RefreshReturnsOwner ==
    [][\A p \in Procs :
         (RefreshLooksUp(p) /\ proc'[p].status = "ok") =>
            \E r \in tokens : \E u \in users :
               /\ r.token = proc[p].refreshToken
               /\ u.id = r.userId
               /\ r.token.sub = u.id
               /\ proc'[p].ret.user = Identity(u)
               /\ proc'[p].ret.accessToken =
                     generateAccessToken([userId |-> u.id,
                                          username |-> u.username,
                                          email |-> u.email])
               /\ proc'[p].ret.refreshToken = NoToken]_vars

\* the second of two users refreshed a session of theirs
C17_Witness ==
    \E p \in Procs : \E r \in tokens :
        /\ proc[p].op = "refresh" /\ proc[p].status = "ok"
        /\ proc[p].refreshToken = r.token
        /\ r.userId = 2 /\ proc[p].ret.user.id = 2
        /\ proc[p].ret.accessToken.username = proc[p].ret.user.username
        /\ Cardinality(users) = 2

\* this step is the re-fetch of request p's register call
RegisterFetches(p) ==
    /\ proc[p].op = "register" /\ proc[p].pc = "fetch"
    /\ proc'[p] # proc[p]

\* C18: a register that returns gives the row its own insert created: the
\* username and email are the call's arguments and the id is the one the
\* insert generated, whatever other register calls did in between.
C18_RegisterReturnsOwnRow ==
    [][\A p \in Procs :
         (RegisterFetches(p) /\ proc'[p].status = "ok") =>
            /\ proc'[p].ret.user.username = proc[p].username
            /\ proc'[p].ret.user.email = proc[p].email
            /\ proc'[p].ret.user.id = proc[p].insertId
            /\ \E r \in users : Identity(r) = proc'[p].ret.user]_vars

\* two overlapping registers: the one that inserted second has returned
\* while the one that inserted first has not re-fetched yet
C18_Witness ==
    \E p \in Procs : \E q \in Procs :
        /\ proc[p].op = "register" /\ proc[p].status = "ok"
        /\ proc[p].insertId = 2 /\ proc[p].ret.user.id = 2
        /\ proc[p].ret.user.email = proc[p].email
        /\ proc[q].op = "register" /\ proc[q].pc = "fetch"
        /\ proc[q].insertId = 1

\* C19: a login with the username or the email of a registered user and that
\* user's password passes the credential check as that user, whatever other
\* rows the lookup matches.
C19_LoginCompleteness ==
    [][\A p \in Procs : LoginVerifies(p) =>
         \A r \in users :
            (/\ (r.username = proc'[p].username \/ r.email = proc'[p].username)
             /\ bcryptCompare(proc'[p].password, r.passwordHash))
               => /\ proc'[p].pc = "insert"
                  /\ proc'[p].user = Identity(r)]_vars

\* request p has passed getConnection's "if (!pool)" and holds, or waits
\* for, a connection of the pool it found or created
OnPool(p) ==
    cproc[p].op \in {"executeQuery", "executeTransaction"}
        /\ cproc[p].pc \in {"afterInit", "acquiring"}

\* C20: a pool is created only by a getConnection that finds the handle
\* null, which sets the handle in the same step, so that a getConnection
\* called while another is still in initializePool's await finds that pool
\* and creates none; every call that goes on to pool.getConnection() does so
\* on the pool the handle holds; and a handle that holds a pool changes only
\* when closePool resets it to null.
C20_LazyPoolInit ==
    [][/\ poolsCreated' # poolsCreated =>
            /\ pool = NullPool
            /\ poolsCreated' = poolsCreated + 1
            /\ pool' # NullPool /\ pool'.id = poolsCreated'
       /\ pool # NullPool => poolsCreated' = poolsCreated
       /\ \A p \in Procs :
            (cproc'[p] # cproc[p] /\ cproc'[p].pc = "acquiring") =>
               (pool' # NullPool /\ cproc'[p].poolId = pool'.id
                  /\ pool'.id = poolsCreated')
       /\ (pool # NullPool /\ pool'.id # pool.id) =>
            /\ pool' = NullPool
            /\ \E p \in Procs :
                 /\ cproc[p].op = "closePool" /\ cproc[p].pc = "ending"
                 /\ cproc'[p].pc = "idle" /\ cproc'[p].thrown = ""]_vars

\* two getConnection calls raced for the first pool: one created it and is
\* in its await, the other found it; one pool exists
C20_Witness ==
    \E p \in Procs : \E q \in Procs :
        /\ cproc[p].pc = "afterInit"
        /\ cproc[q].pc = "acquiring" /\ cproc[q].poolId = pool.id
        /\ OnPool(p) /\ OnPool(q)
        /\ pool # NullPool /\ poolsCreated = 1

=============================================================================
